---- MODULE Spec2Model ----
(***************************************************************************)
(* Model of plus-weather-project-template.py: the converters, the date     *)
(* formatter, the statistics functions and the two report generators.      *)
(*                                                                         *)
(* Representation of Python values                                         *)
(*   value       a record [kind, n, d, u].  kind "int" is the int n;       *)
(*               kind "float" is the float n/d + u * 2^-52, u counting     *)
(*               units in the last place of 1.0; kind "str" is a text      *)
(*               that float() rejects.                                     *)
(*   iso string  a sequence of one-character strings.                      *)
(*   str         a built string is a TLA+ string; a string built by        *)
(*               several appends is the sequence of the appended pieces.   *)
(*   row         <<date, min, max>>; Python index k is TLA+ index k + 1.   *)
(***************************************************************************)
EXTENDS Integers, Sequences, FiniteSets, TLC

VARIABLES weather_data, temp_in_fahrenheit, op, status, ret, exc, calls, summary,
          results

vars == <<weather_data, temp_in_fahrenheit, op, status, ret, exc, calls, summary,
          results>>

(***************************************************************************)
(* Bounds of the model.                                                    *)
(***************************************************************************)
MaxDays == 2
MaxSeqLen == 5
MaxWeek == 3
MaxBelowZero == 60
FHi == 230

(***************************************************************************)
(* Numbers.                                                                *)
(***************************************************************************)
Abs(x) == IF x < 0 THEN -x ELSE x

RECURSIVE Gcd(_, _)
Gcd(a, b) == IF b = 0 THEN a ELSE Gcd(b, a % b)

PyInt(v) == [kind |-> "int", n |-> v, d |-> 1, u |-> 0]

\* The float n/d + u * 2^-52, the fraction in lowest terms.
PyFloat(n, d, u) ==
    LET g == Gcd(Abs(n), d)
    IN  [kind |-> "float", n |-> n \div g, d |-> d \div g, u |-> u]

\* A text that is not the spelling of a number.
Text == [kind |-> "str", n |-> 0, d |-> 1, u |-> 0]

\* ==, <= and < of numbers.  Two different fractions of the model are much
\* further apart than the units in the last place they carry.
NumEq(a, b) == a.n * b.d = b.n * a.d /\ a.u = b.u

NumLt(a, b) ==
    \/ a.n * b.d < b.n * a.d
    \/ a.n * b.d = b.n * a.d /\ a.u < b.u

NumLe(a, b) == NumLt(a, b) \/ NumEq(a, b)

\* float(x): an int becomes the float of the same value, a float is itself;
\* a non-numeric text raises ValueError (CanFloat: it does not raise).
CanFloat(x) == x.kind # "str"

float(x) == PyFloat(x.n, x.d, x.u)

AllFloat(s) == \A i \in DOMAIN s : CanFloat(s[i])

FloatList(s) == [i \in DOMAIN s |-> float(s[i])]

\* Outcome of a call: a returned value or a raised exception.
Return(v) == [raised |-> FALSE, value |-> v, exc |-> "", calls |-> {}]

Raise(e) == [raised |-> TRUE, value |-> <<>>, exc |-> e, calls |-> {}]

(***************************************************************************)
(* Rounding p/q (q > 0) to the nearest integer, an exact half going to the *)
(* even neighbour.                                                         *)
(***************************************************************************)
RoundHalfEven(p, q) ==
    LET fl == p \div q
        r2 == 2 * (p - fl * q)
    IN  IF r2 < q THEN fl
        ELSE IF r2 > q THEN fl + 1
        ELSE IF fl % 2 = 0 THEN fl ELSE fl + 1

(***************************************************************************)
(* Binary64 arithmetic.  The exact result of an operation is a fraction    *)
(* n/d plus un/ud units of 2^-52; the float returned is the double nearest *)
(* to it, a tie going to the even significand.  For a binary fraction n/d  *)
(* of magnitude 2^b up to 2^(b+1) the doubles around it are 2^b units      *)
(* apart, so the units are rounded to a multiple of 2^b.  A fraction that  *)
(* is not binary (a mean such as 110/3) stands for the double nearest to   *)
(* it, and carries no units.                                               *)
(***************************************************************************)
RECURSIVE IsPowerOfTwo(_)
IsPowerOfTwo(d) == d = 1 \/ (d > 1 /\ d % 2 = 0 /\ IsPowerOfTwo(d \div 2))

\* The b with 2^b * d <= a < 2^(b+1) * d, for a >= d > 0.
RECURSIVE Binade(_, _)
Binade(a, d) == IF a < 2 * d THEN 0 ELSE 1 + Binade(a, 2 * d)

Nearest(n, d, un, ud) ==
    LET g == Gcd(Abs(n), d)
        nn == n \div g
        dd == d \div g
        b == Binade(Abs(nn), dd)
        \* just below a power of two the doubles are half as far apart
        below == Abs(nn) = (2 ^ b) * dd /\ ((un < 0) # (nn < 0))
        step == IF below THEN 2 ^ (b - 1) ELSE 2 ^ b
    IN  IF un = 0 \/ ~IsPowerOfTwo(dd) \/ Abs(nn) < dd \/ (below /\ b = 0)
        THEN PyFloat(n, d, 0)
        ELSE PyFloat(n, d, step * RoundHalfEven(un, ud * step))

\* x + y, x * k and x / k for numbers x, y and an int k > 0.
fadd(x, y) == Nearest(x.n * y.d + y.n * x.d, x.d * y.d, x.u + y.u, 1)

fmul(x, k) == Nearest(x.n * k, x.d, x.u * k, 1)

fdiv(x, k) == Nearest(x.n, x.d * k, x.u, k)

\* round(x, ndigits) for ndigits 0 or 1: the nearest multiple of 10^-ndigits
\* to the exact value of the float x, an exact half going to the even one.
round(x, ndigits) ==
    LET scale == IF ndigits = 1 THEN 10 ELSE 1
        p == scale * x.n
        half == (2 * p) % x.d = 0 /\ p % x.d # 0
        t == IF half /\ x.u > 0 THEN p \div x.d + 1
             ELSE IF half /\ x.u < 0 THEN p \div x.d
             ELSE RoundHalfEven(p, x.d)
    IN  PyFloat(t * (10 \div scale), 10, 0)

\* repr of an int, and of a float that has one decimal, as an f-string
\* prints them.
repr(x) ==
    LET t == (10 * x.n) \div x.d
    IN  IF x.kind = "int" THEN ToString(x.n)
        ELSE (IF t < 0 THEN "-" ELSE "") \o ToString(Abs(t) \div 10) \o "."
             \o ToString(Abs(t) % 10)

DEGREE_SYMBOL == "°C"

format_temperature(temp) == repr(temp) \o DEGREE_SYMBOL

convert_f_to_c_truncating(temp_in_f) ==
    IF ~CanFloat(temp_in_f) THEN Raise("ValueError")
    ELSE LET f == float(temp_in_f)
             celsius == fdiv(fmul(fadd(f, PyInt(-32)), 5), 9)
         IN  Return(PyFloat((10 * celsius.n) \div celsius.d, 10, 0))

convert_f_to_c(temp_in_f) ==
    IF ~CanFloat(temp_in_f) THEN Raise("ValueError")
    ELSE LET f == float(temp_in_f)
             celsius == fdiv(fmul(fadd(f, PyInt(-32)), 5), 9)
         IN  Return(round(celsius, 1))

(***************************************************************************)
(* Statistics.                                                             *)
(***************************************************************************)
\* sum(list): the int 0, then one addition per element, left to right.
RECURSIVE sum_from(_, _, _)
sum_from(s, k, acc) ==
    IF k > Len(s) THEN acc ELSE sum_from(s, k + 1, fadd(acc, s[k]))

sum(s) == sum_from(s, 1, PyInt(0))

calculate_mean_unguarded(values) ==
    IF ~AllFloat(values) THEN Raise("ValueError")
    ELSE LET fl == FloatList(values)
         IN  IF fl = <<>> THEN Raise("ZeroDivisionError")
             ELSE Return(fdiv(sum(fl), Len(fl)))

calculate_mean(values) ==
    IF ~AllFloat(values) THEN Raise("ValueError")
    ELSE LET fl == FloatList(values)
         IN  IF fl = <<>> THEN Return(PyInt(0))
             ELSE Return(fdiv(sum(fl), Len(fl)))

Reverse(s) == [i \in DOMAIN s |-> s[Len(s) + 1 - i]]

\* list.index(x): the 0-based position of the first element equal to x.
index(s, x) ==
    (CHOOSE i \in DOMAIN s : NumEq(s[i], x) /\ \A j \in 1..(i - 1) : ~NumEq(s[j], x)) - 1

\* min(list) and max(list): the first element that no other element beats.
min(s) ==
    s[CHOOSE i \in DOMAIN s : (\A j \in DOMAIN s : NumLe(s[i], s[j]))
                              /\ \A j \in 1..(i - 1) : NumLt(s[i], s[j])]

max(s) ==
    s[CHOOSE i \in DOMAIN s : (\A j \in DOMAIN s : NumLe(s[j], s[i]))
                              /\ \A j \in 1..(i - 1) : NumLt(s[j], s[i])]

find_min_first_match(values) ==
    IF values = <<>> THEN Return(<<>>)
    ELSE IF ~AllFloat(values) THEN Raise("ValueError")
    ELSE LET fl == FloatList(values)
             min_value == min(fl)
         IN  Return(<<min_value, index(fl, min_value)>>)

find_min(values) ==
    IF values = <<>> THEN Return(<<>>)
    ELSE IF ~AllFloat(values) THEN Raise("ValueError")
    ELSE LET fl == FloatList(values)
             min_value == min(fl)
             min_index == Len(fl) - 1 - index(Reverse(fl), min_value)
         IN  Return(<<min_value, min_index>>)

find_max_first_match(values) ==
    IF values = <<>> THEN Return(<<>>)
    ELSE IF ~AllFloat(values) THEN Raise("ValueError")
    ELSE LET fl == FloatList(values)
             max_value == max(fl)
         IN  Return(<<max_value, index(fl, max_value)>>)

find_max_unguarded(values) ==
    IF values = <<>> THEN Raise("ValueError")
    ELSE IF ~AllFloat(values) THEN Raise("ValueError")
    ELSE LET fl == FloatList(values)
             max_value == max(fl)
             max_index == Len(fl) - 1 - index(Reverse(fl), max_value)
         IN  Return(<<max_value, max_index>>)

find_max(values) ==
    IF values = <<>> THEN Return(<<>>)
    ELSE IF ~AllFloat(values) THEN Raise("ValueError")
    ELSE LET fl == FloatList(values)
             max_value == max(fl)
             max_index == Len(fl) - 1 - index(Reverse(fl), max_value)
         IN  Return(<<max_value, max_index>>)

(***************************************************************************)
(* Date formatter.                                                         *)
(***************************************************************************)
Digits == {"0", "1", "2", "3", "4", "5", "6", "7", "8", "9"}

DigitVal(c) ==
    CASE c = "0" -> 0 [] c = "1" -> 1 [] c = "2" -> 2 [] c = "3" -> 3
      [] c = "4" -> 4 [] c = "5" -> 5 [] c = "6" -> 6 [] c = "7" -> 7
      [] c = "8" -> 8 [] c = "9" -> 9

IsLeap(y) == y % 4 = 0 /\ (y % 100 # 0 \/ y % 400 = 0)

DaysInMonth(y, m) ==
    IF m = 2 THEN (IF IsLeap(y) THEN 29 ELSE 28)
    ELSE IF m \in {4, 6, 9, 11} THEN 30 ELSE 31

RECURSIVE DaysBeforeMonth(_, _)
DaysBeforeMonth(y, m) ==
    IF m = 1 THEN 0 ELSE DaysBeforeMonth(y, m - 1) + DaysInMonth(y, m - 1)

DaysBeforeYear(y) ==
    (y - 1) * 365 + (y - 1) \div 4 - (y - 1) \div 100 + (y - 1) \div 400

ToOrdinal(y, m, d) == DaysBeforeYear(y) + DaysBeforeMonth(y, m) + d

\* date.weekday(): Monday is 0.
Weekday(y, m, d) == (ToOrdinal(y, m, d) + 6) % 7

DayNames == <<"Monday", "Tuesday", "Wednesday", "Thursday", "Friday",
              "Saturday", "Sunday">>

MonthNames == <<"January", "February", "March", "April", "May", "June",
                "July", "August", "September", "October", "November",
                "December">>

\* datetime.fromisoformat on a date-only string: YYYY-MM-DD, a month of
\* the calendar and a day of that month; anything else is a ValueError.
IsIsoDate(iso_string) ==
    /\ Len(iso_string) = 10
    /\ iso_string[5] = "-" /\ iso_string[8] = "-"
    /\ \A i \in {1, 2, 3, 4, 6, 7, 9, 10} : iso_string[i] \in Digits
    /\ LET y == DigitVal(iso_string[1]) * 1000 + DigitVal(iso_string[2]) * 100
                 + DigitVal(iso_string[3]) * 10 + DigitVal(iso_string[4])
           m == DigitVal(iso_string[6]) * 10 + DigitVal(iso_string[7])
           d == DigitVal(iso_string[9]) * 10 + DigitVal(iso_string[10])
       IN  y >= 1 /\ m \in 1..12 /\ d \in 1..DaysInMonth(y, m)

\* strftime('%A %d %B %Y')
strftime(y, m, d) ==
    DayNames[Weekday(y, m, d) + 1] \o " "
    \o (IF d < 10 THEN "0" ELSE "") \o ToString(d) \o " "
    \o MonthNames[m] \o " " \o ToString(y)

RECURSIVE Join(_)
Join(pieces) == IF pieces = <<>> THEN "" ELSE Head(pieces) \o Join(Tail(pieces))

convert_date_lenient(iso_string) ==
    IF ~IsIsoDate(iso_string) THEN Return(Join(iso_string))
    ELSE LET y == DigitVal(iso_string[1]) * 1000 + DigitVal(iso_string[2]) * 100
                  + DigitVal(iso_string[3]) * 10 + DigitVal(iso_string[4])
             m == DigitVal(iso_string[6]) * 10 + DigitVal(iso_string[7])
             d == DigitVal(iso_string[9]) * 10 + DigitVal(iso_string[10])
         IN  Return(strftime(y, m, d))

convert_date(iso_string) ==
    IF ~IsIsoDate(iso_string) THEN Raise("ValueError")
    ELSE LET y == DigitVal(iso_string[1]) * 1000 + DigitVal(iso_string[2]) * 100
                  + DigitVal(iso_string[3]) * 10 + DigitVal(iso_string[4])
             m == DigitVal(iso_string[6]) * 10 + DigitVal(iso_string[7])
             d == DigitVal(iso_string[9]) * 10 + DigitVal(iso_string[10])
         IN  Return(strftime(y, m, d))

(***************************************************************************)
(* Report generators.                                                      *)
(***************************************************************************)
\* The outcome o of a call, with the names of the functions it went through.
Via(o, names) == [o EXCEPT !.calls = names]

\* [day[k] for day in weather_data], k the Python index of the column.
Column(data, k) == [i \in DOMAIN data |-> data[i][k + 1]]

average_temperature_whole_degrees(temps) ==
    LET mean == calculate_mean(temps)
    IN  IF mean.raised THEN mean
        ELSE Return(format_temperature(round(convert_f_to_c(mean.value).value, 0)))

\* format_temperature(round(convert_f_to_c(calculate_mean(temps)), 1))
average_temperature(temps) ==
    LET mean == calculate_mean(temps)
    IN  IF mean.raised THEN mean
        ELSE Return(format_temperature(round(convert_f_to_c(mean.value).value, 1)))

\* generate_summary after its emptiness test.
overview(data) ==
    LET min_temps == Column(data, 1)
        max_temps == Column(data, 2)
        fmin == find_min(min_temps)
        fmax == find_max(max_temps)
    IN  IF fmin.raised THEN Via(Raise(fmin.exc), {"find_min"})
        ELSE IF fmin.value = <<>>
             THEN Via(Raise("ValueError"), {"find_min"})
        ELSE IF fmax.raised
             THEN Via(Raise(fmax.exc), {"find_min", "find_max"})
        ELSE IF fmax.value = <<>>
             THEN Via(Raise("ValueError"), {"find_min", "find_max"})
        ELSE
        LET min_temp == fmin.value[1]
            min_temp_day == fmin.value[2]
            max_temp == fmax.value[1]
            max_temp_day == fmax.value[2]
            min_temp_date == convert_date(data[min_temp_day + 1][1])
            max_temp_date == convert_date(data[max_temp_day + 1][1])
            min_temp_c == format_temperature(convert_f_to_c(min_temp).value)
            max_temp_c == format_temperature(convert_f_to_c(max_temp).value)
            avg_min_temp == average_temperature(min_temps)
            avg_max_temp == average_temperature(max_temps)
        IN  IF min_temp_date.raised
            THEN Via(Raise(min_temp_date.exc),
                     {"find_min", "find_max", "convert_date"})
            ELSE IF max_temp_date.raised
            THEN Via(Raise(max_temp_date.exc),
                     {"find_min", "find_max", "convert_date"})
            ELSE IF avg_min_temp.raised
            THEN Via(Raise(avg_min_temp.exc),
                     {"find_min", "find_max", "convert_date", "convert_f_to_c",
                      "format_temperature", "calculate_mean"})
            ELSE IF avg_max_temp.raised
            THEN Via(Raise(avg_max_temp.exc),
                     {"find_min", "find_max", "convert_date", "convert_f_to_c",
                      "format_temperature", "calculate_mean"})
            ELSE Via(Return(<<
                ToString(Len(data)) \o " Day Overview\n",
                "  The lowest temperature will be " \o min_temp_c
                    \o ", and will occur on " \o min_temp_date.value \o ".\n",
                "  The highest temperature will be " \o max_temp_c
                    \o ", and will occur on " \o max_temp_date.value \o ".\n",
                "  The average low this week is " \o avg_min_temp.value \o ".\n",
                "  The average high this week is " \o avg_max_temp.value \o ".\n"
                >>),
                {"find_min", "find_max", "convert_date", "convert_f_to_c",
                 "format_temperature", "calculate_mean"})

generate_summary_unguarded(data) == overview(data)

generate_summary(data) ==
    IF data = <<>> THEN Return(<<"No data available.">>)
    ELSE overview(data)

daily_block_swapped(day) ==
    LET date == convert_date(day[1])
        min_temp_c == convert_f_to_c(day[3])
        max_temp_c == convert_f_to_c(day[2])
    IN  IF date.raised THEN Via(Raise(date.exc), {"convert_date"})
        ELSE IF min_temp_c.raised
             THEN Via(Raise(min_temp_c.exc), {"convert_date", "convert_f_to_c"})
        ELSE IF max_temp_c.raised
             THEN Via(Raise(max_temp_c.exc), {"convert_date", "convert_f_to_c"})
        ELSE Via(Return(<<
            "---- " \o date.value \o " ----\n",
            "  Minimum Temperature: " \o format_temperature(min_temp_c.value) \o "\n",
            "  Maximum Temperature: " \o format_temperature(max_temp_c.value) \o "\n\n"
            >>), {"convert_date", "convert_f_to_c", "format_temperature"})

\* One pass of the loop of generate_daily_summary: the three pieces that
\* the pass appends to summary, or the exception that ends the call.
daily_block(day) ==
    LET date == convert_date(day[1])
        min_temp_c == convert_f_to_c(day[2])
        max_temp_c == convert_f_to_c(day[3])
    IN  IF date.raised THEN Via(Raise(date.exc), {"convert_date"})
        ELSE IF min_temp_c.raised
             THEN Via(Raise(min_temp_c.exc), {"convert_date", "convert_f_to_c"})
        ELSE IF max_temp_c.raised
             THEN Via(Raise(max_temp_c.exc), {"convert_date", "convert_f_to_c"})
        ELSE Via(Return(<<
            "---- " \o date.value \o " ----\n",
            "  Minimum Temperature: " \o format_temperature(min_temp_c.value) \o "\n",
            "  Maximum Temperature: " \o format_temperature(max_temp_c.value) \o "\n\n"
            >>), {"convert_date", "convert_f_to_c", "format_temperature"})

\* for day in weather_data, from the k-th row on, started with the pieces
\* acc: the loop runs to the end of the data or to the first exception.
RECURSIVE daily_loop(_, _, _, _)
daily_loop(data, k, acc, called) ==
    IF k > Len(data) THEN Via(Return(acc), called)
    ELSE LET block == daily_block(data[k])
         IN  IF block.raised
             THEN [Raise(block.exc) EXCEPT !.value = acc,
                                           !.calls = called \cup block.calls]
             ELSE daily_loop(data, k + 1, acc \o block.value,
                             called \cup block.calls)

(***************************************************************************)
(* The inputs drawn.                                                       *)
(***************************************************************************)
Jul05 == <<"2", "0", "2", "1", "-", "0", "7", "-", "0", "5">>

Jul06 == <<"2", "0", "2", "1", "-", "0", "7", "-", "0", "6">>

Feb30 == <<"2", "0", "2", "1", "-", "0", "2", "-", "3", "0">>

Dates == {Jul05, Jul06, Feb30}

Temps == {PyInt(30), PyInt(50), Text}

Rows == Dates \X Temps \X Temps

Datasets == UNION {[1..n -> Rows] : n \in 0..MaxDays}

StatValues == {PyInt(0), PyInt(1), PyInt(2), PyInt(3), PyInt(5)}

\* 1.5000000000000002 and 1.5000000000000004
FloatValues == {PyFloat(3, 2, 1), PyFloat(3, 2, 2)}

\* Lists of ints and lists of floats.
NumberLists ==
    UNION {[1..n -> StatValues] \cup [1..n -> FloatValues] : n \in 0..MaxSeqLen}

\* 30, 50 and 7.250000000000002 (two doubles above 7.25)
WeekTemps == {PyInt(30), PyInt(50), PyFloat(29, 4, 8)}

\* Rows of valid dates whose minimum is not above their maximum.
WeekRows == {row \in {Jul05, Jul06} \X WeekTemps \X WeekTemps :
                NumLe(row[2], row[3])}

Weeks == UNION {[1..n -> WeekRows] : n \in 0..MaxWeek}

Fahrenheits == {PyInt(f) : f \in (-MaxBelowZero)..FHi}

(***************************************************************************)
(* The state machine: a caller holds an input and calls the functions on   *)
(* it.  A call is one step.  op is the function called last, status how    *)
(* the call ended, ret the value it returned (<<v>>, or <<>> when nothing  *)
(* was returned), exc the exception that reached the caller, calls the     *)
(* functions the call went through, summary the local of that name of      *)
(* generate_daily_summary as the call left it.  results is a history       *)
(* variable: for every function, how its last call on the input ended.     *)
(***************************************************************************)
Functions == {"generate_summary", "generate_daily_summary", "find_min",
              "find_max", "calculate_mean", "convert_f_to_c"}

Idle ==
    /\ op = "none" /\ status = "idle" /\ ret = <<>> /\ exc = ""
    /\ calls = {} /\ summary = <<>>
    /\ results = [name \in Functions |-> <<>>]

\* The caller's view of the outcome o of a call of the function name.
Outcome(name, o) ==
    /\ op' = name
    /\ status' = IF o.raised THEN "raised" ELSE "returned"
    /\ ret' = IF o.raised THEN <<>> ELSE <<o.value>>
    /\ exc' = o.exc
    /\ calls' = o.calls
    /\ results' = [results EXCEPT ![name] =
                       <<[raised |-> o.raised, exc |-> o.exc,
                          ret |-> IF o.raised THEN <<>> ELSE <<o.value>>]>>]

Init ==
    /\ weather_data \in Datasets
    /\ temp_in_fahrenheit = PyInt(32)
    /\ Idle

GenerateSummary ==
    /\ Outcome("generate_summary", generate_summary(weather_data))
    /\ UNCHANGED <<weather_data, temp_in_fahrenheit, summary>>

GenerateDailySummaryKeepingSummary ==
    LET o == daily_loop(weather_data, 1, summary, {})
    IN  /\ summary' = o.value
        /\ Outcome("generate_daily_summary", o)
        /\ UNCHANGED <<weather_data, temp_in_fahrenheit>>

GenerateDailySummary ==
    LET o == daily_loop(weather_data, 1, <<>>, {})
    IN  /\ summary' = o.value
        /\ Outcome("generate_daily_summary", o)
        /\ UNCHANGED <<weather_data, temp_in_fahrenheit>>

Next == GenerateSummary \/ GenerateDailySummary

Spec == Init /\ [][Next]_vars

\* The overview of up to MaxWeek rows, with temperatures that are ints or
\* floats.
InitWeek ==
    /\ weather_data \in Weeks
    /\ temp_in_fahrenheit = PyInt(32)
    /\ Idle

NextWeek == GenerateSummary

SpecWeek == InitWeek /\ [][NextWeek]_vars

\* The statistics functions, called on a list of numbers.
InitStats ==
    /\ weather_data \in NumberLists
    /\ temp_in_fahrenheit = PyInt(32)
    /\ Idle

FindMin ==
    /\ Outcome("find_min", find_min(weather_data))
    /\ UNCHANGED <<weather_data, temp_in_fahrenheit, summary>>

FindMax ==
    /\ Outcome("find_max", find_max(weather_data))
    /\ UNCHANGED <<weather_data, temp_in_fahrenheit, summary>>

CalculateMean ==
    /\ Outcome("calculate_mean", calculate_mean(weather_data))
    /\ UNCHANGED <<weather_data, temp_in_fahrenheit, summary>>

NextStats == FindMin \/ FindMax \/ CalculateMean

SpecStats == InitStats /\ [][NextStats]_vars

\* The temperature converter, called on one integer after another.
InitConv ==
    /\ weather_data = <<>>
    /\ temp_in_fahrenheit \in Fahrenheits
    /\ Idle

ConvertFToC ==
    \E f \in Fahrenheits :
        /\ temp_in_fahrenheit' = f
        /\ Outcome("convert_f_to_c", convert_f_to_c(f))
        /\ UNCHANGED <<weather_data, summary>>

NextConv == ConvertFToC

SpecConv == InitConv /\ [][NextConv]_vars

(***************************************************************************)
(* Vocabulary of the properties.                                           *)
(***************************************************************************)
Returned(name) == op = name /\ status = "returned"

\* The Python index of the last element of the numeric list s that no
\* element is below (above).
LastLowest(s) ==
    CHOOSE i \in 0..(Len(s) - 1) :
        /\ \A j \in DOMAIN s : NumLe(s[i + 1], s[j])
        /\ \A j \in (i + 2)..Len(s) : ~NumEq(s[j], s[i + 1])

LastHighest(s) ==
    CHOOSE i \in 0..(Len(s) - 1) :
        /\ \A j \in DOMAIN s : NumLe(s[j], s[i + 1])
        /\ \A j \in (i + 2)..Len(s) : ~NumEq(s[j], s[i + 1])

RECURSIVE Total(_)
Total(s) == IF s = <<>> THEN 0 ELSE Head(s).n + Total(Tail(s))

BadDate(row) == ~IsIsoDate(row[1])

BadTemperature(row) == ~CanFloat(row[2]) \/ ~CanFloat(row[3])

Celsius(x) == convert_f_to_c(x).value

IsIntList(s) == \A i \in DOMAIN s : s[i].kind = "int"

(***************************************************************************)
(* C1: on a non-empty list of numbers find_min returns (v, i) with v the   *)
(* least element, s[i] = v and no later element equal to v; find_max the   *)
(* same for the greatest element.                                          *)
(***************************************************************************)
C1_LastOccurrenceOfExtreme ==
    (op \in {"find_min", "find_max"} /\ weather_data # <<>>) =>
        /\ status = "returned"
        /\ Len(ret[1]) = 2
        /\ LET v == ret[1][1]
               i == ret[1][2]
           IN  /\ i \in 0..(Len(weather_data) - 1)
               /\ NumEq(weather_data[i + 1], v)
               /\ \A j \in (i + 2)..Len(weather_data) :
                      ~NumEq(weather_data[j], v)
               /\ op = "find_min" =>
                      \A j \in DOMAIN weather_data : NumLe(v, weather_data[j])
               /\ op = "find_max" =>
                      \A j \in DOMAIN weather_data : NumLe(weather_data[j], v)

\* find_min([1, 2, 0, 0, 5]) has returned (0.0, 3).
C1_Witness ==
    /\ Returned("find_min")
    /\ weather_data = <<PyInt(1), PyInt(2), PyInt(0), PyInt(0), PyInt(5)>>
    /\ ret = << <<PyFloat(0, 1, 0), 3>> >>

(***************************************************************************)
(* C5: on the empty list find_min and find_max return the empty tuple and  *)
(* raise nothing, and no call of either on a non-empty list returns the    *)
(* empty tuple.                                                            *)
(***************************************************************************)
C5_EmptyResultOnEmptyInput ==
    op \in {"find_min", "find_max"} =>
        /\ weather_data = <<>> => (status = "returned" /\ ret = << <<>> >>)
        /\ (weather_data # <<>> /\ status = "returned") =>
               (ret[1] # <<>> /\ Len(ret[1]) = 2)

C5_Witness ==
    /\ Returned("find_max") /\ weather_data = <<>> /\ ret = << <<>> >>
    /\ results["find_min"] # <<>> /\ results["find_min"][1].ret = << <<>> >>

(***************************************************************************)
(* C6, as claimed: calculate_mean returns 0 on the empty list and raises   *)
(* nothing; on a non-empty list of numbers it returns the sum divided by   *)
(* the length, which is 2 on [1, 2, 3] and lies between the least and the  *)
(* greatest element.                                                       *)
(***************************************************************************)
C6_MeanWithinExtremes ==
    op = "calculate_mean" =>
        /\ status = "returned"
        /\ weather_data = <<>> => ret = <<PyInt(0)>>
        /\ weather_data # <<>> =>
               /\ IsIntList(weather_data) =>
                      ret[1].n * Len(weather_data)
                          = Total(weather_data) * ret[1].d
               /\ \E j \in DOMAIN weather_data : NumLe(weather_data[j], ret[1])
               /\ \E j \in DOMAIN weather_data : NumLe(ret[1], weather_data[j])
        /\ weather_data = <<PyInt(1), PyInt(2), PyInt(3)>> =>
               NumEq(ret[1], PyInt(2))

(***************************************************************************)
(* C6, amended: calculate_mean returns 0 on the empty list and raises      *)
(* nothing; on a non-empty list of numbers it returns the float sum        *)
(* divided by the length; on a list of ints that is the exact quotient,    *)
(* 2 on [1, 2, 3], and lies between the least and the greatest element.    *)
(***************************************************************************)
C6_Mean ==
    op = "calculate_mean" =>
        /\ status = "returned"
        /\ weather_data = <<>> => ret = <<PyInt(0)>>
        /\ weather_data # <<>> =>
               /\ ret[1].kind = "float"
               /\ IsIntList(weather_data) =>
                   /\ ret[1].n * Len(weather_data)
                          = Total(weather_data) * ret[1].d
                   /\ ret[1].u = 0
                   /\ \E j \in DOMAIN weather_data :
                          NumLe(weather_data[j], ret[1])
                   /\ \E j \in DOMAIN weather_data :
                          NumLe(ret[1], weather_data[j])
        /\ weather_data = <<PyInt(1), PyInt(2), PyInt(3)>> =>
               NumEq(ret[1], PyInt(2))

C6_Witness ==
    /\ Returned("calculate_mean")
    /\ weather_data = <<PyInt(1), PyInt(2), PyInt(3)>>
    /\ ret = <<PyFloat(2, 1, 0)>>

(***************************************************************************)
(* C7: on an integer convert_f_to_c returns a whole number of tenths that  *)
(* is within 0.05 of (value - 32) * 5/9; it returns 0.0 for 32 and 100.0   *)
(* for 212; and a call on a greater or equal input never returns less than *)
(* the call before it.                                                     *)
(***************************************************************************)
C7_NearestTenth ==
    op = "convert_f_to_c" =>
        /\ status = "returned"
        /\ (10 * ret[1].n) % ret[1].d = 0
        /\ ret[1].u = 0
        /\ LET t == (10 * ret[1].n) \div ret[1].d
               f == temp_in_fahrenheit.n
               err == 18 * t - 100 * (f - 32)
           IN  /\ -9 <= err /\ err <= 9
               /\ f = 32 => t = 0
               /\ f = 212 => t = 1000

C7_Monotone ==
    (op = "convert_f_to_c" /\ op' = "convert_f_to_c"
     /\ NumLe(temp_in_fahrenheit, temp_in_fahrenheit')) =>
        (status' = "returned" /\ NumLe(ret[1], ret'[1]))

C7_ConvertFToC == []C7_NearestTenth /\ [][C7_Monotone]_vars

C7_Witness ==
    /\ Returned("convert_f_to_c")
    /\ temp_in_fahrenheit = PyInt(212)
    /\ ret = <<PyFloat(100, 1, 0)>>

(***************************************************************************)
(* C2: the overview of a non-empty dataset states the number of rows, and  *)
(* dates the lowest temperature with the date of the last row whose        *)
(* minimum is the least of the minimum column, the highest temperature     *)
(* with the date of the last row whose maximum is the greatest of the      *)
(* maximum column; each index is found in its own column.                  *)
(***************************************************************************)
C2_OverviewCountAndDates ==
    (Returned("generate_summary") /\ weather_data # <<>>) =>
        LET lows == Column(weather_data, 1)
            highs == Column(weather_data, 2)
            i == LastLowest(lows)
            j == LastHighest(highs)
        IN  /\ Len(ret[1]) = 5
            /\ ret[1][1] = ToString(Len(weather_data)) \o " Day Overview\n"
            /\ i \in 0..(Len(weather_data) - 1)
            /\ j \in 0..(Len(weather_data) - 1)
            /\ ~BadDate(weather_data[i + 1]) /\ ~BadDate(weather_data[j + 1])
            /\ ret[1][2] = "  The lowest temperature will be "
                            \o format_temperature(Celsius(lows[i + 1]))
                            \o ", and will occur on "
                            \o convert_date(weather_data[i + 1][1]).value \o ".\n"
            /\ ret[1][3] = "  The highest temperature will be "
                            \o format_temperature(Celsius(highs[j + 1]))
                            \o ", and will occur on "
                            \o convert_date(weather_data[j + 1][1]).value \o ".\n"

\* Two rows tied on the minimum, the maximum in the first row: the lowest
\* is dated with the second row, the highest with the first.
C2_Witness ==
    /\ Returned("generate_summary")
    /\ weather_data = << <<Jul05, PyInt(30), PyInt(50)>>,
                          <<Jul06, PyInt(30), PyInt(30)>> >>
    /\ ret[1][1] = "2 Day Overview\n"
    /\ ret[1][2] = "  The lowest temperature will be -1.1°C, and will occur on Tuesday 06 July 2021.\n"
    /\ ret[1][3] = "  The highest temperature will be 10.0°C, and will occur on Monday 05 July 2021.\n"

(***************************************************************************)
(* C3: the daily summary of N rows is N blocks, the k-th made of the date, *)
(* the minimum and the maximum of the k-th row, whatever rows repeat; the  *)
(* daily summary of no rows is the empty string.                           *)
(***************************************************************************)
C3_DailyBlocksInOrder ==
    op = "generate_daily_summary" =>
        /\ (\A k \in DOMAIN weather_data :
                ~BadDate(weather_data[k]) /\ ~BadTemperature(weather_data[k]))
               => status = "returned"
        /\ status = "returned" =>
            /\ Len(ret[1]) = 3 * Len(weather_data)
            /\ \A k \in DOMAIN weather_data :
                 LET day == weather_data[k]
                 IN  /\ ret[1][3 * k - 2] =
                            "---- " \o convert_date(day[1]).value \o " ----\n"
                     /\ ret[1][3 * k - 1] =
                            "  Minimum Temperature: "
                            \o format_temperature(Celsius(day[2])) \o "\n"
                     /\ ret[1][3 * k] =
                            "  Maximum Temperature: "
                            \o format_temperature(Celsius(day[3])) \o "\n\n"
        /\ weather_data = <<>> => Join(ret[1]) = ""

\* The same row twice over gives the same block twice over.
C3_Witness ==
    /\ Returned("generate_daily_summary")
    /\ weather_data = << <<Jul06, PyInt(30), PyInt(50)>>,
                          <<Jul06, PyInt(30), PyInt(50)>> >>
    /\ Len(ret[1]) = 6
    /\ ret[1][1] = "---- Tuesday 06 July 2021 ----\n"
    /\ ret[1][4] = "---- Tuesday 06 July 2021 ----\n"
    /\ ret[1][5] = "  Minimum Temperature: -1.1°C\n"
    /\ ret[1][6] = "  Maximum Temperature: 10.0°C\n\n"

(***************************************************************************)
(* C4: the overview of the empty dataset is the text "No data available."  *)
(* and is returned without going through find_min, find_max or             *)
(* calculate_mean; the overview of a non-empty dataset is never that text. *)
(***************************************************************************)
C4_NoDataMessage ==
    op = "generate_summary" =>
        /\ weather_data = <<>> =>
               /\ status = "returned"
               /\ Join(ret[1]) = "No data available."
               /\ calls \cap {"find_min", "find_max", "calculate_mean"} = {}
        /\ (weather_data # <<>> /\ status = "returned") =>
               Join(ret[1]) # "No data available."

C4_Witness ==
    /\ Returned("generate_summary")
    /\ weather_data = <<>>
    /\ ret = << <<"No data available.">> >>
    /\ calls = {}

(***************************************************************************)
(* C8, as claimed: whenever some row of a non-empty dataset has a date     *)
(* that is not an ISO date or a temperature that is not numeric, both      *)
(* report generators end in an exception and return nothing.               *)
(***************************************************************************)
C8_AnyBadRowRaises ==
    (op \in {"generate_summary", "generate_daily_summary"}
     /\ \E k \in DOMAIN weather_data :
            BadDate(weather_data[k]) \/ BadTemperature(weather_data[k])) =>
        (status = "raised" /\ ret = <<>>)

(***************************************************************************)
(* C8, amended: generate_daily_summary ends in an exception and returns    *)
(* nothing, not even the blocks it had built, whenever some row has a bad  *)
(* date or a bad temperature; generate_summary does so whenever some row   *)
(* has a bad temperature, or the row it dates the lowest or the highest    *)
(* temperature with has a bad date.  No call changes the dataset.          *)
(***************************************************************************)
C8_BadRowReached ==
    /\ (op = "generate_daily_summary"
        /\ \E k \in DOMAIN weather_data :
               BadDate(weather_data[k]) \/ BadTemperature(weather_data[k])) =>
           (status = "raised" /\ ret = <<>> /\ exc = "ValueError")
    /\ (op = "generate_summary" /\ weather_data # <<>>) =>
           IF \E k \in DOMAIN weather_data : BadTemperature(weather_data[k])
           THEN status = "raised" /\ ret = <<>> /\ exc = "ValueError"
           ELSE (\/ BadDate(weather_data[LastLowest(Column(weather_data, 1)) + 1])
                 \/ BadDate(weather_data[LastHighest(Column(weather_data, 2)) + 1]))
                    => (status = "raised" /\ ret = <<>> /\ exc = "ValueError")

C8_DatasetUntouched == weather_data' = weather_data

C8_ErrorsReachTheCaller == []C8_BadRowReached /\ [][C8_DatasetUntouched]_vars

\* The second row is bad: the call raised with the first block built and
\* returned nothing.
C8_Witness ==
    /\ op = "generate_daily_summary" /\ status = "raised" /\ ret = <<>>
    /\ weather_data = << <<Jul05, PyInt(30), PyInt(50)>>,
                          <<Feb30, PyInt(30), PyInt(50)>> >>
    /\ Len(summary) = 3
    /\ results["generate_summary"] # <<>>
    /\ results["generate_summary"][1].raised

(***************************************************************************)
(* C9: once a function has been called on the input, every later call of   *)
(* it on that input ends the same way with the same value, whatever was    *)
(* called in between, and no call changes the input.                       *)
(***************************************************************************)
C9_SameOutcomeAgain ==
    /\ weather_data' = weather_data
    /\ \A name \in Functions :
          results[name] # <<>> => results'[name] = results[name]

C10_AverageWithinExtremes ==
    (Returned("generate_summary") /\ weather_data # <<>>) =>
        LET lows == Column(weather_data, 1)
            highs == Column(weather_data, 2)
            lowest == Celsius(lows[LastLowest(lows) + 1])
            highest == Celsius(highs[LastHighest(highs) + 1])
            avg_low == Celsius(calculate_mean(lows).value)
            avg_high == Celsius(calculate_mean(highs).value)
        IN  /\ ~BadDate(weather_data[LastLowest(lows) + 1])
            /\ ~BadDate(weather_data[LastHighest(highs) + 1])
            /\ ret[1][4] = "  The average low this week is "
                            \o format_temperature(avg_low) \o ".\n"
            /\ ret[1][5] = "  The average high this week is "
                            \o format_temperature(avg_high) \o ".\n"
            /\ ret[1][2] = "  The lowest temperature will be "
                            \o format_temperature(lowest) \o ", and will occur on "
                            \o convert_date(weather_data[LastLowest(lows) + 1][1]).value
                            \o ".\n"
            /\ ret[1][3] = "  The highest temperature will be "
                            \o format_temperature(highest) \o ", and will occur on "
                            \o convert_date(weather_data[LastHighest(highs) + 1][1]).value
                            \o ".\n"
            /\ NumLe(lowest, avg_low)
            /\ NumLe(avg_high, highest)

(***************************************************************************)
(* C10, amended: the average low and the average high shown by the         *)
(* overview are convert_f_to_c of the column mean, the second rounding     *)
(* changing nothing; when the temperatures of the column are ints, the     *)
(* average low shown is not below the lowest temperature shown and the     *)
(* average high shown is not above the highest shown.                      *)
(***************************************************************************)
C10_AverageRoundedOnce ==
    (Returned("generate_summary") /\ weather_data # <<>>) =>
        LET lows == Column(weather_data, 1)
            highs == Column(weather_data, 2)
            lowest == Celsius(lows[LastLowest(lows) + 1])
            highest == Celsius(highs[LastHighest(highs) + 1])
            avg_low == Celsius(calculate_mean(lows).value)
            avg_high == Celsius(calculate_mean(highs).value)
        IN  /\ ~BadDate(weather_data[LastLowest(lows) + 1])
            /\ ~BadDate(weather_data[LastHighest(highs) + 1])
            /\ ret[1][4] = "  The average low this week is "
                            \o format_temperature(avg_low) \o ".\n"
            /\ ret[1][5] = "  The average high this week is "
                            \o format_temperature(avg_high) \o ".\n"
            /\ ret[1][2] = "  The lowest temperature will be "
                            \o format_temperature(lowest) \o ", and will occur on "
                            \o convert_date(weather_data[LastLowest(lows) + 1][1]).value
                            \o ".\n"
            /\ ret[1][3] = "  The highest temperature will be "
                            \o format_temperature(highest) \o ", and will occur on "
                            \o convert_date(weather_data[LastHighest(highs) + 1][1]).value
                            \o ".\n"
            /\ IsIntList(lows) => NumLe(lowest, avg_low)
            /\ IsIntList(highs) => NumLe(avg_high, highest)

\* Lows of 30, 30 and 50 have the mean 36.66..., which is 2.59... Celsius
\* and is shown as 2.6, above the lowest shown.
C10_Witness ==
    /\ Returned("generate_summary")
    /\ weather_data = << <<Jul05, PyInt(30), PyInt(50)>>,
                          <<Jul06, PyInt(30), PyInt(50)>>,
                          <<Jul06, PyInt(50), PyInt(50)>> >>
    /\ ret[1][2] = "  The lowest temperature will be -1.1°C, and will occur on Tuesday 06 July 2021.\n"
    /\ ret[1][3] = "  The highest temperature will be 10.0°C, and will occur on Tuesday 06 July 2021.\n"
    /\ ret[1][4] = "  The average low this week is 2.6°C.\n"
    /\ ret[1][5] = "  The average high this week is 10.0°C.\n"

====
